---- MODULE Spec2Model ----
(***************************************************************************)
(* Model of src/utilities/random.py: RandomState (a snapshot of the        *)
(* process-wide RNG streams), RandomContext (a scope that swaps the        *)
(* ambient RNG state for a private, seed-derived one) and Reproducible     *)
(* (three RandomContexts built from a configuration).                      *)
(*                                                                         *)
(* The RNG libraries themselves (random, numpy, torch) are outside the     *)
(* repository.  Each stream's state is abstracted to a number in           *)
(* 0..StateMod-1; seeding is a function of the seed, a draw advances the   *)
(* state by a fixed permutation.                                           *)
(***************************************************************************)
EXTENDS Integers, Sequences, FiniteSets, TLC

(* ------------------------------ bounds --------------------------------- *)
\* size of the abstract state space of one RNG stream
StateMod == 3
\* RandomContext objects constructed directly, where several are
MaxCtx == 2
\* calls made on the contexts and the streams in one behaviour
MaxSteps == 5
\* RandomState objects built directly in one behaviour
MaxSnaps == 2

(* ----------------------- external RNG libraries ------------------------ *)
None == <<>>
Some(x) == <<x>>
IsNone(o) == o = <<>>
Val(o) == o[1]

Abs(x) == IF x < 0 THEN -x ELSE x

\* concrete integer seeds a caller passes
SeedVals == {-1, 1, 2, 3}
SeedArgs == {None} \cup {Some(s) : s \in SeedVals}
\* states OS entropy may leave a stream in when it is seeded with None
Entropy == {0, 1}

States == 0 .. (StateMod - 1)
\* device counts the environment reports, and the device indices they expose
DeviceCounts == {0, 1, 2}
Devices == {0, 1}

\* random.seed(int): the state is a function of abs(seed)
SeedPy(s) == Abs(s) % StateMod
\* np.random.seed(int) raises ValueError unless 0 <= seed <= 2**32 - 1; the
\* upper limit lies beyond the seeds enumerated here
NpSeedOK(s) == 0 <= s
SeedNp(s) == (s + 1) % StateMod
\* torch.manual_seed(int): CPU generator, and every visible CUDA generator
SeedCpu(s) == (2 * s + 1) % StateMod
SeedGpu(s) == (2 * s) % StateMod
\* one draw advances a stream
Step(s) == (s + 1) % StateMod
\* random.randint(-sys.maxsize - 1, sys.maxsize): the value drawn in state s
RandInt(s) == s - 2

(* ------------------------------- state --------------------------------- *)
VARIABLES
    ambient,       \* the process-wide RNG streams: [py, np, cpu, gpu]
    device_count,  \* torch.cuda.device_count()
    ctx,           \* the RandomContext objects, in order of construction
    holder,        \* the Reproducible object: None or Some(record of ctx ids)
    raised,        \* the exception the last call raised, "none" if it returned
    last,          \* the last call: [op, c, exc, seed]
    hist,          \* per context, history the claims are stated with
    cfg,           \* the configuration given to the last Reproducible(...)
    snaps,         \* the RandomState objects built directly, in order
    steps          \* number of calls so far (constructions apart)

vars == <<ambient, device_count, ctx, holder, raised, last, hist, cfg, snaps, steps>>

Ambients == [py : States, np : States, cpu : States, gpu : [Devices -> States]]

(* ----------------------------- RandomState ----------------------------- *)
\* a capture that reads the state of every device there ever was, not of
\* the devices counted at the call
RandomStateAllDevices(amb, count) ==
    [random_mod_state |-> amb.py,
     np_state         |-> amb.np,
     torch_cpu_state  |-> amb.cpu,
     torch_gpu_states |-> [i \in 1 .. Cardinality(Devices) |-> amb.gpu[i - 1]]]

\* RandomState(): capture of the ambient streams, one entry per visible device
RandomState(amb, count) ==
    [random_mod_state |-> amb.py,
     np_state         |-> amb.np,
     torch_cpu_state  |-> amb.cpu,
     torch_gpu_states |-> [i \in 1 .. count |-> amb.gpu[i - 1]]]

\* a restore that forgets np.random.set_state
restoreSkipNp(s, amb, count) ==
    [amb |-> [py  |-> s.random_mod_state,
              np  |-> amb.np,
              cpu |-> s.torch_cpu_state,
              gpu |-> [d \in Devices |->
                         IF d < Len(s.torch_gpu_states) /\ d < count
                         THEN s.torch_gpu_states[d + 1]
                         ELSE amb.gpu[d]]],
     err |-> IF Len(s.torch_gpu_states) > count THEN "DeviceError" ELSE "none"]

\* a restore that passes over the device states the environment no longer
\* exposes, and returns
restoreLenient(s, amb, count) ==
    [amb |-> [py  |-> s.random_mod_state,
              np  |-> s.np_state,
              cpu |-> s.torch_cpu_state,
              gpu |-> [d \in Devices |->
                         IF d < Len(s.torch_gpu_states) /\ d < count
                         THEN s.torch_gpu_states[d + 1]
                         ELSE amb.gpu[d]]],
     err |-> "none"]

\* RandomState.restore(): the streams are written in order; the loop over the
\* device states stops at the first index the environment does not expose
\* (torch.cuda.set_rng_state raises there: "DeviceError"), every earlier
\* write having taken effect
restore(s, amb, count) ==
    [amb |-> [py  |-> s.random_mod_state,
              np  |-> s.np_state,
              cpu |-> s.torch_cpu_state,
              gpu |-> [d \in Devices |->
                         IF d < Len(s.torch_gpu_states) /\ d < count
                         THEN s.torch_gpu_states[d + 1]
                         ELSE amb.gpu[d]]],
     err |-> IF Len(s.torch_gpu_states) > count THEN "DeviceError" ELSE "none"]

(* ---------------------------- RandomContext ---------------------------- *)
\* torch.manual_seed(s): the CPU stream and every visible device stream
manual_seed(amb, count, s) ==
    [amb EXCEPT !.cpu = SeedCpu(s),
                !.gpu = [d \in Devices |->
                           IF d < count THEN SeedGpu(s) ELSE amb.gpu[d]]]

\* a seeding that calls np.random.seed() without the seed
SeededNpUnseeded(amb, count, seed, e1, e2) ==
    IF IsNone(seed)
    THEN manual_seed([amb EXCEPT !.py = Step(e1), !.np = e2], count, RandInt(e1))
    ELSE manual_seed([amb EXCEPT !.py = SeedPy(Val(seed)),
                                 !.np = e2], count, Val(seed))

\* a seeding that draws the tensor seed before random.seed(seed) has run
SeededDrawFirst(amb, count, seed, e1, e2) ==
    IF IsNone(seed)
    THEN manual_seed([amb EXCEPT !.py = e1, !.np = e2], count, RandInt(amb.py))
    ELSE manual_seed([amb EXCEPT !.py = SeedPy(Val(seed)),
                                 !.np = SeedNp(Val(seed))], count, Val(seed))

\* the streams after lines 33-38, for a seed the libraries accept;
\* e1, e2 are the entropy random.seed(None) and np.random.seed(None) read
Seeded(amb, count, seed, e1, e2) ==
    IF IsNone(seed)
    THEN manual_seed([amb EXCEPT !.py = Step(e1), !.np = e2], count, RandInt(e1))
    ELSE manual_seed([amb EXCEPT !.py = SeedPy(Val(seed)),
                                 !.np = SeedNp(Val(seed))], count, Val(seed))

\* RandomContext.__init__(seed): the ambient streams it leaves, the exception
\* it raises, and the object it builds (when it returns)
RandomContextInit(amb, count, seed, e1, e2) ==
    LET outside_state == RandomState(amb, count)
    IN  IF ~IsNone(seed) /\ ~NpSeedOK(Val(seed))
        THEN \* np.random.seed raises after random.seed has run
             [amb |-> [amb EXCEPT !.py = SeedPy(Val(seed))],
              err |-> "ValueError",
              obj |-> None]
        ELSE LET inside_state ==
                     RandomState(Seeded(amb, count, seed, e1, e2), count)
             IN  [amb |-> restore(outside_state,
                                  Seeded(amb, count, seed, e1, e2), count).amb,
                  err |-> "none",
                  obj |-> Some([inside_state  |-> inside_state,
                                outside_state |-> None,
                                has_outside   |-> FALSE,
                                active        |-> FALSE])]

\* history of a context just built: the seed it was given (while its inside
\* snapshot is still the one derived from it), the ambient state before the
\* successful Enter of the open scope, the ambient state at the last Exit,
\* whether an Exit of an open scope of it ever failed in its restore
\* (failed), and whether one did and no Exit has returned since (stuck)
Born(seed) ==
    [fresh |-> TRUE,
     given |-> ~IsNone(seed),
     seed  |-> IF IsNone(seed) THEN 0 ELSE Val(seed),
     pre   |-> None,
     left  |-> None,
     failed |-> FALSE,
     stuck |-> FALSE]

Call(op, c, exc, seed) == [op |-> op, c |-> c, exc |-> exc, seed |-> seed]

Init ==
    /\ ambient \in {a \in Ambients : a.np = 0 /\ a.cpu = 0 /\ a.gpu = [d \in Devices |-> 0]}
    /\ device_count \in DeviceCounts
    /\ ctx = <<>>
    /\ holder = None
    /\ raised = "none"
    /\ last = Call("start", 0, "none", None)
    /\ hist = <<>>
    /\ cfg = None
    /\ snaps = <<>>
    /\ steps = 0

\* c = RandomContext(seed)
Construct(seed) ==
    /\ Len(ctx) < MaxCtx
    /\ \E e1 \in Entropy, e2 \in Entropy :
         LET r == RandomContextInit(ambient, device_count, seed, e1, e2)
         IN  /\ ambient' = r.amb
             /\ raised' = r.err
             /\ ctx' = IF IsNone(r.obj) THEN ctx ELSE Append(ctx, Val(r.obj))
             /\ hist' = IF IsNone(r.obj) THEN hist
                        ELSE Append(hist, Born(seed))
             /\ last' = Call("construct", IF IsNone(r.obj) THEN 0 ELSE Len(ctx) + 1,
                              "none", seed)
    /\ UNCHANGED <<device_count, holder, cfg, snaps, steps>>

\* a guard that never rejects
NeverActive(obj) == FALSE

\* the guard of __enter__
AlreadyActive(obj) == obj.active

\* an __enter__ that keeps outside_state on the class, shared by every instance
EnterStoreShared(objs, c, outside_state, ok) ==
    [k \in 1 .. Len(objs) |->
        IF k = c
        THEN [objs[k] EXCEPT !.outside_state = Some(outside_state),
                             !.has_outside = TRUE,
                             !.active = ok]
        ELSE [objs[k] EXCEPT !.outside_state = Some(outside_state),
                             !.has_outside = TRUE]]

\* the assignments of __enter__: self.outside_state = RandomState(), and
\* self._active = True once inside_state.restore() has returned (ok)
EnterStore(objs, c, outside_state, ok) ==
    [objs EXCEPT ![c] = [@ EXCEPT !.outside_state = Some(outside_state),
                                  !.has_outside = TRUE,
                                  !.active = ok]]

\* RandomContext.__enter__
Enter(c) ==
    /\ c \in 1 .. Len(ctx)
    /\ steps < MaxSteps
    /\ steps' = steps + 1
    /\ last' = Call("enter", c, "none", None)
    /\ IF AlreadyActive(ctx[c])
       THEN /\ raised' = "Exception"
            /\ UNCHANGED <<ambient, ctx, hist>>
       ELSE LET outside_state == RandomState(ambient, device_count)
                r == restore(ctx[c].inside_state, ambient, device_count)
            IN  /\ ambient' = r.amb
                /\ raised' = r.err
                /\ ctx' = EnterStore(ctx, c, outside_state, r.err = "none")
                /\ hist' = [hist EXCEPT ![c] =
                              [@ EXCEPT !.pre = IF r.err = "none"
                                                THEN Some(ambient) ELSE @]]
    /\ UNCHANGED <<device_count, holder, cfg, snaps>>

\* an __exit__ that returns True
ExitSuppresses == TRUE

\* the value __exit__ returns: None, so the body's exception is not suppressed
ExitReturns == FALSE

\* an __exit__ that does not store the state the scope reached
ExitKeep(objs, c, amb, count) == objs

\* an __exit__ that stores the state on the class, shared by every instance
ExitStoreShared(objs, c, amb, count) ==
    [k \in 1 .. Len(objs) |->
        [objs[k] EXCEPT !.inside_state = RandomState(amb, count)]]

\* self.inside_state = RandomState() in __exit__: the objects afterwards
ExitStore(objs, c, amb, count) ==
    [objs EXCEPT ![c] = [@ EXCEPT !.inside_state = RandomState(amb, count)]]

\* RandomContext.__exit__(exception_type, ...); exc is the body's exception
Exit(c, exc) ==
    /\ c \in 1 .. Len(ctx)
    /\ steps < MaxSteps
    /\ steps' = steps + 1
    /\ last' = Call("exit", c, exc, None)
    /\ LET saved == ExitStore(ctx, c, ambient, device_count)
           noted == [hist[c] EXCEPT !.fresh = FALSE, !.given = FALSE, !.seed = 0,
                                    !.left = Some(ambient)]
       IN  IF ~ctx[c].has_outside \/ IsNone(ctx[c].outside_state)
           THEN \* self.outside_state is missing, or None
                /\ raised' = "AttributeError"
                /\ ctx' = saved
                /\ hist' = [hist EXCEPT ![c] = noted]
                /\ UNCHANGED ambient
           ELSE LET r == restore(Val(ctx[c].outside_state), ambient, device_count)
                IN  /\ ambient' = r.amb
                    /\ IF r.err # "none"
                       THEN /\ raised' = r.err
                            /\ ctx' = saved
                            /\ hist' = [hist EXCEPT ![c] =
                                          [noted EXCEPT
                                             !.failed = @ \/ ctx[c].active,
                                             !.stuck = ctx[c].active]]
                       ELSE /\ raised' = IF ExitReturns THEN "none" ELSE exc
                            /\ ctx' = [saved EXCEPT ![c] =
                                         [@ EXCEPT !.outside_state = None,
                                                   !.active = FALSE]]
                            /\ hist' = [hist EXCEPT ![c] =
                                          [noted EXCEPT !.pre = None,
                                                        !.stuck = FALSE]]
    /\ UNCHANGED <<device_count, holder, cfg, snaps>>

(* ------------------------------ environment ---------------------------- *)
Streams == {"py", "np", "cpu"}

\* one draw from the general-purpose, numeric-array or tensor CPU stream
Draw(s) ==
    /\ steps < MaxSteps
    /\ steps' = steps + 1
    /\ ambient' = [ambient EXCEPT ![s] = Step(@)]
    /\ raised' = "none"
    /\ last' = Call("draw", 0, "none", None)
    /\ UNCHANGED <<device_count, ctx, holder, hist, cfg, snaps>>

\* one draw from the stream of a visible device
DrawDevice(d) ==
    /\ steps < MaxSteps
    /\ d < device_count
    /\ steps' = steps + 1
    /\ ambient' = [ambient EXCEPT !.gpu[d] = Step(@)]
    /\ raised' = "none"
    /\ last' = Call("draw", 0, "none", None)
    /\ UNCHANGED <<device_count, ctx, holder, hist, cfg, snaps>>

\* the environment reports another device count; this is no call of the
\* program and takes nothing of the budget of calls
SetDeviceCount(n) ==
    /\ n # device_count
    /\ device_count' = n
    /\ raised' = "none"
    /\ last' = Call("devices", 0, "none", None)
    /\ UNCHANGED <<ambient, ctx, holder, hist, cfg, snaps, steps>>

(* ------------------------ RandomState used directly ------------------- *)
\* s = RandomState()
Capture ==
    /\ Len(snaps) < MaxSnaps
    /\ steps < MaxSteps
    /\ steps' = steps + 1
    /\ snaps' = Append(snaps, RandomState(ambient, device_count))
    /\ raised' = "none"
    /\ last' = Call("capture", Len(snaps) + 1, "none", None)
    /\ UNCHANGED <<ambient, device_count, ctx, holder, hist, cfg>>

\* s.restore(), for the k-th snapshot
Restore(k) ==
    /\ k \in 1 .. Len(snaps)
    /\ steps < MaxSteps
    /\ steps' = steps + 1
    /\ ambient' = restore(snaps[k], ambient, device_count).amb
    /\ raised' = restore(snaps[k], ambient, device_count).err
    /\ last' = Call("restore", k, "none", None)
    /\ UNCHANGED <<device_count, ctx, holder, hist, cfg, snaps>>

(* ------------------------------ Reproducible --------------------------- *)
Keys == {"data_seed", "model_seed", "init_seed"}

\* a configuration: a mapping (a key may be missing: None; or hold None or an
\* integer: Some(seed argument)), or a RandomizationConfig object
Configs ==
    [kind : {"dict"}, fields : [Keys -> {None} \cup {Some(a) : a \in SeedArgs}]]
    \cup [kind : {"attrs"}, fields : [Keys -> {Some(a) : a \in SeedArgs}]]

\* config[key]
GetItem(config, key) ==
    IF config.kind = "attrs"
    THEN [err |-> "TypeError", val |-> None]
    ELSE IF IsNone(config.fields[key])
         THEN [err |-> "KeyError", val |-> None]
         ELSE [err |-> "none", val |-> Val(config.fields[key])]

\* RandomContext(config[key]) from the streams amb
FromConfig(amb, count, config, key, e1, e2) ==
    LET g == GetItem(config, key)
    IN  IF g.err # "none"
        THEN [amb |-> amb, err |-> g.err, obj |-> None, seed |-> None]
        ELSE [amb |-> RandomContextInit(amb, count, g.val, e1, e2).amb,
              err |-> RandomContextInit(amb, count, g.val, e1, e2).err,
              obj |-> RandomContextInit(amb, count, g.val, e1, e2).obj,
              seed |-> g.val]

\* the configuration keys read for data_random, model_random, init_random
HolderKeys == <<"data_seed", "model_seed", "init_seed">>

\* Reproducible.__init__(config); e is the entropy the three constructions read
ReproducibleInit(amb, count, config, e) ==
    LET d == FromConfig(amb, count, config, HolderKeys[1], e[1], e[2])
        m == FromConfig(d.amb, count, config, HolderKeys[2], e[3], e[4])
        i == FromConfig(m.amb, count, config, HolderKeys[3], e[5], e[6])
    IN  IF d.err # "none" THEN [amb |-> d.amb, err |-> d.err, objs |-> <<>>, seeds |-> <<>>]
        ELSE IF m.err # "none" THEN [amb |-> m.amb, err |-> m.err, objs |-> <<>>, seeds |-> <<>>]
        ELSE IF i.err # "none" THEN [amb |-> i.amb, err |-> i.err, objs |-> <<>>, seeds |-> <<>>]
        ELSE [amb |-> i.amb, err |-> "none",
              objs |-> <<Val(d.obj), Val(m.obj), Val(i.obj)>>,
              seeds |-> <<d.seed, m.seed, i.seed>>]

\* the entropy Reproducible(config) reads: two values for each context whose
\* seed is None (the values no construction reads are fixed)
EntropyFor(config) ==
    {e \in [1 .. 6 -> Entropy] :
        \A k \in 1 .. 3 :
            (GetItem(config, HolderKeys[k]).err # "none"
               \/ ~IsNone(GetItem(config, HolderKeys[k]).val))
            => e[2 * k - 1] = 0 /\ e[2 * k] = 0}

\* h = Reproducible(config)
ConstructHolder(config) ==
    /\ holder = None
    /\ ctx = <<>>
    /\ cfg' = Some(config)
    /\ last' = Call("holder", 0, "none", None)
    /\ \E e \in EntropyFor(config) :
         LET r == ReproducibleInit(ambient, device_count, config, e)
         IN  /\ ambient' = r.amb
             /\ raised' = r.err
             /\ ctx' = r.objs
             /\ hist' = [k \in 1 .. Len(r.objs) |-> Born(r.seeds[k])]
             /\ holder' = IF r.err = "none"
                          THEN Some([data_random |-> 1, model_random |-> 2,
                                     init_random |-> 3])
                          ELSE None
    /\ UNCHANGED <<device_count, snaps, steps>>

\* a scope opened while no context is active
ScopedEnter(c) ==
    /\ \A k \in 1 .. Len(ctx) : ~ctx[k].active
    /\ Enter(c)

\* the end of a scope that was entered
ScopedExit(c, exc) ==
    /\ c \in 1 .. Len(ctx)
    /\ ctx[c].active
    /\ Exit(c, exc)

(* ---------------------------- specifications --------------------------- *)
Excs == {"none", "BodyError"}

\* one context, built and used directly; the device topology is fixed
Next ==
    \/ \E seed \in SeedArgs : ctx = <<>> /\ Construct(seed)
    \/ \E c \in 1 .. Len(ctx) : Enter(c)
    \/ \E c \in 1 .. Len(ctx), exc \in Excs : Exit(c, exc)
    \/ \E s \in Streams : Draw(s)
    \/ \E d \in Devices : DrawDevice(d)

Spec == Init /\ [][Next]_vars

\* several contexts, built before and after others were entered
NextBuild ==
    \/ \E seed \in SeedArgs : Construct(seed)
    \/ \E c \in 1 .. Len(ctx) : Enter(c)

SpecBuild == Init /\ [][NextBuild]_vars

\* one context in an environment whose device count changes
NextTopology ==
    \/ \E seed \in SeedArgs : ctx = <<>> /\ Construct(seed)
    \/ \E c \in 1 .. Len(ctx) : Enter(c)
    \/ \E c \in 1 .. Len(ctx), exc \in Excs : Exit(c, exc)
    \/ \E s \in Streams : Draw(s)
    \/ \E d \in Devices : DrawDevice(d)
    \/ \E n \in DeviceCounts : SetDeviceCount(n)

SpecTopology == Init /\ [][NextTopology]_vars

\* one context used while devices are lost and come back: scopes, draws on
\* the host streams, and Exits tried again
NextRetry ==
    \/ \E seed \in SeedArgs : ctx = <<>> /\ Construct(seed)
    \/ \E c \in 1 .. Len(ctx) : Enter(c)
    \/ \E c \in 1 .. Len(ctx), exc \in Excs : Exit(c, exc)
    \/ \E s \in Streams : Draw(s)
    \/ \E n \in DeviceCounts : SetDeviceCount(n)

SpecRetry == Init /\ [][NextRetry]_vars

\* snapshots taken and restored directly, the device count changing
NextSnapshot ==
    \/ Capture
    \/ \E k \in 1 .. Len(snaps) : Restore(k)
    \/ \E s \in Streams : Draw(s)
    \/ \E d \in Devices : DrawDevice(d)
    \/ \E n \in DeviceCounts : SetDeviceCount(n)

SpecSnapshot == Init /\ [][NextSnapshot]_vars

\* two contexts A (the first built) and B (the second), built before any use,
\* the scopes of B opened inside a scope of A
A == 1
B == 2

NextNested ==
    \/ \E seed \in SeedArgs : steps = 0 /\ Len(ctx) < B /\ Construct(seed)
    \/ Len(ctx) = B /\ ~ctx[B].active /\ Enter(A)
    \/ Len(ctx) = B /\ ctx[A].active /\ Enter(B)
    \/ \E exc \in Excs : Len(ctx) = B /\ ctx[B].active /\ Exit(B, exc)
    \/ \E exc \in Excs : Len(ctx) = B /\ ctx[A].active /\ ~ctx[B].active /\ Exit(A, exc)
    \/ \E s \in Streams : Len(ctx) = B /\ Draw(s)
    \/ \E d \in Devices : Len(ctx) = B /\ DrawDevice(d)

SpecNested == Init /\ [][NextNested]_vars

\* one call Reproducible(config), for every configuration
NextHolderBuild ==
    \/ cfg = None /\ \E config \in Configs : ConstructHolder(config)

SpecHolderBuild == Init /\ [][NextHolderBuild]_vars

\* configurations giving the three contexts distinct integer seeds
DistinctConfigs ==
    {g \in Configs :
        /\ g.kind = "dict"
        /\ \A k \in Keys : ~IsNone(g.fields[k]) /\ ~IsNone(Val(g.fields[k]))
                             /\ NpSeedOK(Val(Val(g.fields[k])))
        /\ \A k1, k2 \in Keys : k1 # k2 => g.fields[k1] # g.fields[k2]}

\* the three contexts of a Reproducible, one scope open at a time
NextHolder ==
    \/ holder = None /\ \E config \in DistinctConfigs : ConstructHolder(config)
    \/ \E c \in 1 .. Len(ctx) : ScopedEnter(c)
    \/ \E c \in 1 .. Len(ctx), exc \in Excs : ScopedExit(c, exc)
    \/ \E s \in Streams : Draw(s)
    \/ \E d \in Devices : DrawDevice(d)

SpecHolder == Init /\ [][NextHolder]_vars

(* ------------------------------- claims -------------------------------- *)
\* the call just made was made on context c
On(op, c) == last.op = op /\ last.c = c

\* C1 (non-leakage): an Exit that ends an open scope leaves every ambient
\* stream in the state it had immediately before the Enter that opened the
\* scope, whatever was drawn inside.
NonLeakage ==
    [][\A c \in 1 .. Len(ctx) :
         (On("exit", c)' /\ ctx[c].active)
         => ambient' = Val(hist[c].pre)]_vars

\* a scope was closed, and the Exit put back a state other than the one the
\* scope had reached
NonLeakageWitness ==
    /\ last.op = "exit"
    /\ raised = "none"
    /\ ~ctx[last.c].active
    /\ IsNone(ctx[last.c].outside_state)
    /\ ctx[last.c].has_outside
    /\ ambient # Val(hist[last.c].left)

\* C2: when the body of an open scope raised, __exit__ has its full effect
\* (inside snapshot replaced by the ambient state, ambient state put back,
\* outside cleared, context inactive) and the body's error is what the caller
\* sees.
BodyErrorExit ==
    [][\A c \in 1 .. Len(ctx) :
         (On("exit", c)' /\ last'.exc = "BodyError" /\ ctx[c].active)
         => /\ ctx'[c].inside_state = RandomState(ambient, device_count)
            /\ ambient' = Val(hist[c].pre)
            /\ IsNone(ctx'[c].outside_state)
            /\ ~ctx'[c].active
            /\ raised' = "BodyError"]_vars

\* a scope whose body raised was closed after draws inside it
BodyErrorExitWitness ==
    /\ last.op = "exit"
    /\ last.exc = "BodyError"
    /\ raised = "BodyError"
    /\ ~ctx[last.c].active
    /\ ambient # Val(hist[last.c].left)

\* C3 (re-entry guard): Enter on an active context raises, and leaves every
\* ambient stream as it was.
ReentryGuard ==
    [][\A c \in 1 .. Len(ctx) :
         (On("enter", c)' /\ ctx[c].active)
         => raised' = "Exception" /\ ambient' = ambient]_vars

\* an Enter was rejected in a state where reinstating the inside snapshot
\* would have changed the ambient streams
ReentryGuardWitness ==
    /\ last.op = "enter"
    /\ raised = "Exception"
    /\ ctx[last.c].active
    /\ RandomState(ambient, device_count) # ctx[last.c].inside_state

\* C5 (resumption): an Enter on a context that was exited before reinstates
\* the ambient state of the moment of that Exit: the sequence continues where
\* the previous scope left it, whatever was drawn outside in between.
Resumption ==
    [][\A c \in 1 .. Len(ctx) :
         (On("enter", c)' /\ ~ctx[c].active /\ ~IsNone(hist[c].left))
         => raised' = "none" /\ ambient' = Val(hist[c].left)]_vars

\* a context that was exited before was entered again, from an ambient state
\* other than the one it reinstated
ResumptionWitness ==
    /\ last.op = "enter"
    /\ raised = "none"
    /\ ctx[last.c].active
    /\ ~IsNone(hist[last.c].left)
    /\ ambient = Val(hist[last.c].left)
    /\ Val(ctx[last.c].outside_state) # ctx[last.c].inside_state

\* C4: a call RandomContext(seed), with an integer seed or with None, leaves
\* every ambient stream as it was, and builds an inactive context.
ConstructionNoEffect ==
    [][last'.op = "construct"
       => /\ ambient' = ambient
          /\ Len(ctx') = Len(ctx) + 1
          /\ ~ctx'[Len(ctx')].active]_vars

\* two contexts still holding the snapshot derived from one integer seed
SameSeed(c1, c2) ==
    /\ hist[c1].fresh /\ hist[c1].given
    /\ hist[c2].fresh /\ hist[c2].given
    /\ hist[c1].seed = hist[c2].seed

\* C6 (determinism): two contexts built from the same integer seed, in
\* whatever ambient states, hold equal inside snapshots until they are used;
\* and entering one makes the ambient streams equal to the inside snapshot of
\* the other, so both scopes draw the same sequences.
Determinism ==
    \A c1, c2 \in 1 .. Len(ctx) :
        SameSeed(c1, c2)
        => /\ ctx[c1].inside_state = ctx[c2].inside_state
           /\ (On("enter", c1) /\ raised = "none")
              => RandomState(ambient, device_count) = ctx[c2].inside_state

\* two contexts of one seed, the second built and entered in the ambient
\* state the scope of the first had installed
DeterminismWitness ==
    \E c1, c2 \in 1 .. Len(ctx) :
        /\ c1 # c2
        /\ SameSeed(c1, c2)
        /\ On("enter", c2)
        /\ raised = "none"
        /\ ctx[c1].active
        /\ ctx[c2].active
        /\ ctx[c1].outside_state # ctx[c2].outside_state

\* C7 (independence): with the three contexts of a Reproducible built from
\* distinct seeds and at most one scope open at a time, no call changes the
\* inside snapshot of a context other than the one it is made on; Enter
\* reinstates the entered context's own snapshot and Exit stores the state its
\* own scope reached, so each private sequence runs as if used alone.
Independence ==
    [][\A k \in 1 .. Len(ctx) :
         /\ last'.c # k => ctx'[k].inside_state = ctx[k].inside_state
         /\ (On("enter", k)' /\ raised' = "none")
            => RandomState(ambient', device_count) = ctx[k].inside_state
         /\ On("exit", k)'
            => ctx'[k].inside_state = RandomState(ambient, device_count)]_vars

\* two contexts of the holder have been used one after the other; they hold
\* different snapshots, and the ambient state is neither of them
IndependenceWitness ==
    /\ ~IsNone(holder)
    /\ \E a, b \in 1 .. Len(ctx) :
          /\ a # b
          /\ On("exit", b)
          /\ ~hist[a].fresh
          /\ ~ctx[a].active /\ ~ctx[b].active
          /\ ctx[a].inside_state # ctx[b].inside_state
          /\ ambient # Val(hist[b].left)
          /\ Val(hist[a].left) # Val(hist[b].left)

\* the step is a restore of a two-device snapshot of context c, made while the
\* environment reports one device
TwoDeviceRestore(c) ==
    /\ device_count = 1
    /\ \/ On("enter", c)' /\ ~ctx[c].active
             /\ Len(ctx[c].inside_state.torch_gpu_states) = 2
       \/ On("exit", c)' /\ ctx[c].has_outside /\ ~IsNone(ctx[c].outside_state)
             /\ Len(Val(ctx[c].outside_state).torch_gpu_states) = 2

\* C8 (device restore safety): restoring a snapshot of two devices while the
\* environment reports one device raises, and leaves the stream of device 0
\* as it was before the call.
DeviceRestoreSafety ==
    [][\A c \in 1 .. Len(ctx) :
         TwoDeviceRestore(c)
         => raised' = "DeviceError" /\ ambient'.gpu[0] = ambient.gpu[0]]_vars

\* the seed arguments of a configuration's fields; a missing key counts as None
FieldSeed(config, key) ==
    IF IsNone(config.fields[key]) THEN None ELSE Val(config.fields[key])

\* obj is an inactive context whose snapshot is the one its seed determines
BuiltFrom(obj, h, seed) ==
    /\ ~obj.active
    /\ h.given = ~IsNone(seed)
    /\ ~IsNone(seed)
       => /\ h.seed = Val(seed)
          /\ obj.inside_state.random_mod_state = SeedPy(Val(seed))
          /\ obj.inside_state.np_state = SeedNp(Val(seed))
          /\ obj.inside_state.torch_cpu_state = SeedCpu(Val(seed))
          /\ \A i \in 1 .. device_count :
                obj.inside_state.torch_gpu_states[i] = SeedGpu(Val(seed))

\* C9: Reproducible(config) builds data_random from data_seed, model_random
\* from model_seed and init_random from init_seed: three distinct, inactive
\* contexts, each inside snapshot determined by its own integer seed, the
\* ambient streams left as they were (stated for the configurations that
\* hold all three fields).
HolderMapping ==
    [][(last'.op = "holder" /\ \A k \in Keys : ~IsNone(Val(cfg').fields[k]))
       => /\ ambient' = ambient
          /\ ~IsNone(holder')
          /\ Len(ctx') = 3
          /\ LET h == Val(holder')
                 g == Val(cfg')
             IN  /\ Cardinality({h.data_random, h.model_random, h.init_random}) = 3
                 /\ BuiltFrom(ctx'[h.data_random], hist'[h.data_random],
                              FieldSeed(g, "data_seed"))
                 /\ BuiltFrom(ctx'[h.model_random], hist'[h.model_random],
                              FieldSeed(g, "model_seed"))
                 /\ BuiltFrom(ctx'[h.init_random], hist'[h.init_random],
                              FieldSeed(g, "init_seed"))]_vars

\* every integer of the configuration is a seed the seeding calls accept
Accepted(config) ==
    \A k \in Keys :
        IsNone(FieldSeed(config, k)) \/ NpSeedOK(Val(FieldSeed(config, k)))

\* C10: Reproducible(config) succeeds and yields three contexts for every
\* configuration whose three fields are each an integer or absent (stated
\* here for the integers every seeding call accepts).
HolderAcceptsOptional ==
    (last.op = "holder" /\ Accepted(Val(cfg)))
    => /\ raised = "none"
       /\ ~IsNone(holder)
       /\ Len(ctx) = 3
       /\ \A k \in 1 .. 3 :
             hist[k].given = ~IsNone(FieldSeed(Val(cfg), HolderKeys[k]))

\* the object holds an outside snapshot: the attribute exists and is not None
Held(obj) == obj.has_outside /\ ~IsNone(obj.outside_state)

\* C11 (state machine): a context is Idle or Active; it goes from Idle to
\* Active only by an Enter that returns, and from Active to Idle only by an
\* Exit; and after every call it holds an outside snapshot exactly when it
\* is Active.
ContextStateMachine ==
    [][\A c \in 1 .. Len(ctx') :
         /\ ctx'[c].active \in BOOLEAN
         /\ Held(ctx'[c]) <=> ctx'[c].active
         /\ c <= Len(ctx) =>
              /\ (~ctx[c].active /\ ctx'[c].active)
                   => (On("enter", c)' /\ raised' = "none")
              /\ (ctx[c].active /\ ~ctx'[c].active) => On("exit", c)']_vars

\* C12 (derivation order): a context built with no seed holds an inside
\* snapshot in which, for one state e that random.seed(None) left, the
\* general-purpose part is e advanced by the one draw, and the CPU part and
\* every device part are the tensor stream seeded with the integer drawn
\* from e; the ambient state at the call has no part in it.
DerivationOrder ==
    \A c \in 1 .. Len(ctx) :
        (hist[c].fresh /\ ~hist[c].given)
        => \E e \in Entropy :
             LET s == ctx[c].inside_state
             IN  /\ s.random_mod_state = Step(e)
                 /\ s.torch_cpu_state = SeedCpu(RandInt(e))
                 /\ \A i \in 1 .. Len(s.torch_gpu_states) :
                      s.torch_gpu_states[i] = SeedGpu(RandInt(e))

\* a context was just built with no seed, on two devices, while the ambient
\* general-purpose stream was in a state other than the reseeded one, from
\* which another tensor seed would have been drawn
DerivationOrderWitness ==
    /\ last.op = "construct"
    /\ raised = "none"
    /\ Len(ctx) >= 1
    /\ LET c == last.c
           s == ctx[c].inside_state
       IN  /\ hist[c].fresh /\ ~hist[c].given
           /\ Len(s.torch_gpu_states) = 2
           /\ Step(ambient.py) # s.random_mod_state
           /\ SeedCpu(RandInt(ambient.py)) # s.torch_cpu_state

\* C13 (restore is idempotent and does not mutate): a restore of a snapshot
\* taken at the present device count returns, leaves every visible stream at
\* the captured value, and, made directly after a restore of the same
\* snapshot, changes nothing; no call (restore, draw, device change, later
\* capture) changes the states a snapshot stores.
RestoreIdempotent ==
    [][\A k \in 1 .. Len(snaps) :
         /\ snaps'[k] = snaps[k]
         /\ (On("restore", k)' /\ Len(snaps[k].torch_gpu_states) = device_count)
            => /\ raised' = "none"
               /\ RandomState(ambient', device_count) = snaps[k]
               /\ On("restore", k) => ambient' = ambient]_vars

\* the first of two different snapshots, taken on two devices, was just
\* restored, after the second was taken from other stream states
RestoreIdempotentWitness ==
    /\ Len(snaps) = 2
    /\ On("restore", 1)
    /\ raised = "none"
    /\ device_count = 2
    /\ Len(snaps[1].torch_gpu_states) = 2
    /\ snaps[2] # snaps[1]
    /\ snaps[2].np_state # snaps[1].np_state
    /\ RandomState(ambient, device_count) = snaps[1]

\* C14 (capture reads the device count at capture time): a call RandomState()
\* returns, leaves the ambient streams as they were, and builds a snapshot
\* of the three host streams with one device entry for each device index
\* below the device count at the call, in order (none when it is zero),
\* whatever earlier snapshots hold.
CaptureReadsCount ==
    [][\A k \in 1 .. Len(snaps') :
         On("capture", k)'
         => /\ raised' = "none"
            /\ ambient' = ambient
            /\ snaps'[k].random_mod_state = ambient.py
            /\ snaps'[k].np_state = ambient.np
            /\ snaps'[k].torch_cpu_state = ambient.cpu
            /\ Len(snaps'[k].torch_gpu_states) = device_count
            /\ \A d \in Devices :
                 d < device_count
                 => snaps'[k].torch_gpu_states[d + 1] = ambient.gpu[d]]_vars

\* a second snapshot was just taken with no device visible, after a first
\* one taken with two devices whose streams had been drawn from
CaptureReadsCountWitness ==
    /\ Len(snaps) = 2
    /\ On("capture", 2)
    /\ device_count = 0
    /\ snaps[2].torch_gpu_states = <<>>
    /\ Len(snaps[1].torch_gpu_states) = 2
    /\ snaps[1].torch_gpu_states[2] # 0

\* C15 (a rejected Enter changes nothing): an Enter on an active context
\* leaves the context's inside snapshot, outside snapshot and activity flag
\* as they were, and the Exit made directly after it ends the scope and
\* leaves the ambient streams as they were before the Enter that opened it.
RejectedEnterFrame ==
    [][\A c \in 1 .. Len(ctx) :
         /\ (On("enter", c)' /\ ctx[c].active)
            => /\ raised' = "Exception"
               /\ ctx'[c] = ctx[c]
               /\ hist'[c].pre = hist[c].pre
         /\ (On("exit", c)' /\ On("enter", c) /\ raised = "Exception")
            => /\ ambient' = Val(hist[c].pre)
               /\ ~ctx'[c].active
               /\ raised' = last'.exc]_vars

\* an Enter was just rejected on a context whose outside snapshot is the
\* capture made when its scope was opened, the ambient streams having moved
\* on since
RejectedEnterFrameWitness ==
    /\ last.op = "enter"
    /\ raised = "Exception"
    /\ LET c == last.c
       IN  /\ ctx[c].active
           /\ Held(ctx[c])
           /\ ~IsNone(hist[c].pre)
           /\ Val(ctx[c].outside_state)
                = RandomState(Val(hist[c].pre), device_count)
           /\ RandomState(ambient, device_count) # Val(ctx[c].outside_state)
           /\ RandomState(ambient, device_count) # ctx[c].inside_state

\* C16 (nested scopes of two instances): with A's scope open, an Enter on
\* the idle context B returns, makes B active with the ambient streams at
\* B's inside snapshot, and leaves A as it was; the Exit on B leaves the
\* ambient streams as they were directly before that Enter (A's sequence as
\* it stood there), stores the state reached into B alone, and leaves A
\* active and as it was; the Exit on A then leaves the ambient streams as
\* they were before the Enter on A and stores the state reached into A alone.
NestedScopes ==
    [][Len(ctx) = B =>
         /\ (On("enter", B)' /\ ctx[A].active /\ ~ctx[B].active)
            => /\ raised' = "none"
               /\ ctx'[B].active
               /\ RandomState(ambient', device_count) = ctx[B].inside_state
               /\ hist'[B].pre = Some(ambient)
               /\ ctx'[A] = ctx[A]
         /\ (On("exit", B)' /\ ctx[A].active /\ ctx[B].active)
            => /\ raised' = last'.exc
               /\ ambient' = Val(hist[B].pre)
               /\ ~ctx'[B].active
               /\ ctx'[B].inside_state = RandomState(ambient, device_count)
               /\ ctx'[A] = ctx[A]
         /\ (On("exit", A)' /\ ctx[A].active /\ ~ctx[B].active)
            => /\ raised' = last'.exc
               /\ ambient' = Val(hist[A].pre)
               /\ ~ctx'[A].active
               /\ ctx'[A].inside_state = RandomState(ambient, device_count)
               /\ ctx'[B] = ctx[B]]_vars

\* the Exit on A was just made after a scope of B inside A's scope: both
\* are idle, each left its scope in a state of its own, and the ambient
\* streams are in neither of the two
NestedScopesWitness ==
    /\ Len(ctx) = B
    /\ On("exit", A)
    /\ raised = "none"
    /\ ~ctx[A].active /\ ~ctx[B].active
    /\ ~IsNone(hist[A].left) /\ ~IsNone(hist[B].left)
    /\ ctx[A].inside_state = RandomState(Val(hist[A].left), device_count)
    /\ ctx[B].inside_state = RandomState(Val(hist[B].left), device_count)
    /\ ctx[A].inside_state # ctx[B].inside_state
    /\ RandomState(ambient, device_count) # ctx[A].inside_state
    /\ RandomState(ambient, device_count) # ctx[B].inside_state

\* C17 as stated (Exit whose restore fails): an Exit on an active context
\* whose outside snapshot holds more device states than the environment now
\* exposes raises the restore's error and leaves the context Active with
\* its outside snapshot held and its inside snapshot replaced; and every
\* Enter made on the context at any later time is rejected.
ExitFailsForever ==
    [][\A c \in 1 .. Len(ctx) :
         /\ ( /\ On("exit", c)'
              /\ ctx[c].active
              /\ Held(ctx[c])
              /\ Len(Val(ctx[c].outside_state).torch_gpu_states) > device_count )
            => /\ raised' = "DeviceError"
               /\ ctx'[c].active
               /\ Held(ctx'[c])
               /\ ctx'[c].inside_state = RandomState(ambient, device_count)
         /\ (On("enter", c)' /\ hist[c].failed)
            => raised' = "Exception"]_vars

\* C17 (Exit whose restore fails), amended: an Exit on an active context
\* whose outside snapshot holds more device states than the environment now
\* exposes raises the restore's error, whatever the body raised, and leaves
\* the context Active, its outside snapshot held and unchanged, its inside
\* snapshot replaced by the ambient state at the Exit; from then on, until
\* an Exit on the context returns, the context stays Active with its
\* outside snapshot held, through draws, device changes and further failing
\* Exits, and every Enter on it is rejected and changes nothing.
ExitRestoreFails ==
    [][\A c \in 1 .. Len(ctx) :
         /\ ( /\ On("exit", c)'
              /\ ctx[c].active
              /\ Held(ctx[c])
              /\ Len(Val(ctx[c].outside_state).torch_gpu_states) > device_count )
            => /\ raised' = "DeviceError"
               /\ hist'[c].stuck
               /\ ctx'[c].active
               /\ Held(ctx'[c])
               /\ ctx'[c].outside_state = ctx[c].outside_state
               /\ ctx'[c].inside_state = RandomState(ambient, device_count)
         /\ hist[c].stuck
            => /\ ctx[c].active /\ Held(ctx[c])
               /\ On("enter", c)'
                  => /\ raised' = "Exception"
                     /\ ctx'[c] = ctx[c]
                     /\ ambient' = ambient
               /\ ~hist'[c].stuck
                  => /\ On("exit", c)'
                     /\ raised' = last'.exc
                     /\ ~ctx'[c].active]_vars

\* an Enter was just rejected on a context whose Exit had failed when one of
\* two devices was gone: no Exit has returned since, the second device is
\* visible again, so the Enter was not the call next to the failing Exit,
\* and the context is still Active and holds its outside snapshot
ExitRestoreFailsWitness ==
    /\ last.op = "enter"
    /\ raised = "Exception"
    /\ device_count = 2
    /\ LET c == last.c
       IN  /\ hist[c].stuck
           /\ ctx[c].active
           /\ Held(ctx[c])
           /\ Len(Val(ctx[c].outside_state).torch_gpu_states) = 2
           /\ ctx[c].inside_state.random_mod_state
                # Val(ctx[c].outside_state).random_mod_state

\* C18 (Exit on a context that is not active): an Exit on an idle context,
\* never entered or already exited, raises an error, leaves every ambient
\* stream and the activity flag as they were, and replaces the context's
\* inside snapshot by a capture of the ambient state.
IdleExit ==
    [][\A c \in 1 .. Len(ctx) :
         (On("exit", c)' /\ ~ctx[c].active)
         => /\ raised' = "AttributeError"
            /\ ambient' = ambient
            /\ ~ctx'[c].active
            /\ ~Held(ctx'[c])
            /\ ctx'[c].inside_state = RandomState(ambient, device_count)]_vars

\* an Exit just failed on a context that had completed a scope before: it
\* is idle, its outside snapshot is None, and its inside snapshot is now the
\* ambient state, on two devices
IdleExitWitness ==
    /\ last.op = "exit"
    /\ raised = "AttributeError"
    /\ device_count = 2
    /\ LET c == last.c
       IN  /\ ~ctx[c].active
           /\ ctx[c].has_outside
           /\ IsNone(ctx[c].outside_state)
           /\ ctx[c].inside_state = RandomState(ambient, device_count)
           /\ ambient.np # 0

====
